---- MODULE Spec2Model ----
(***************************************************************************)
(* Dual-model chat dashboard (src/utils/dashboards/                       *)
(* dual_model_chat_dashboard.py): the session state, the prompt builder,  *)
(* the output extractor, the legacy migration and the display() script.   *)
(*                                                                         *)
(* Text is a sequence of symbols.  An ordinary character is a one-letter   *)
(* string; a marker such as "<eot>" or "<|im_end|>" is one symbol.         *)
(***************************************************************************)
EXTENDS Integers, Sequences, FiniteSets, TLC

\* ------------------------------------------------------------------ bounds

\* The most turns the two histories may hold together after a Send.
MaxTurns == 2

\* The counter of executed migrations saturates here.
MigrationCap == 2

\* ------------------------------------------------------------------- text

EOT == "<eot>"
IM_START_USER == "<|im_start|>user"
IM_START_ASSISTANT == "<|im_start|>assistant"
IM_END == "<|im_end|>"
THINK == "<think>"

\* Concatenation of a sequence of texts: Python's "".join(parts).
RECURSIVE join(_)
join(parts) ==
    IF parts = <<>> THEN <<>> ELSE Head(parts) \o join(Tail(parts))

\* s without its first n symbols: Python's s[n:].
slice_from(s, n) ==
    IF n >= Len(s) THEN <<>> ELSE SubSeq(s, n + 1, Len(s))

\* Python's str.strip(): leading and trailing whitespace removed.
RECURSIVE lstrip(_)
lstrip(s) ==
    IF s # <<>> /\ Head(s) = " " THEN lstrip(Tail(s)) ELSE s

RECURSIVE rstrip(_)
rstrip(s) ==
    IF s # <<>> /\ s[Len(s)] = " " THEN rstrip(SubSeq(s, 1, Len(s) - 1)) ELSE s

strip(s) == rstrip(lstrip(s))

\* Python's text.split("<eot>"): the pieces between the markers, k + 1 pieces
\* for k markers.
RECURSIVE split_eot(_, _)
split_eot(text, cur) ==
    IF text = <<>> THEN <<cur>>
    ELSE IF Head(text) = EOT THEN <<cur>> \o split_eot(Tail(text), <<>>)
    ELSE split_eot(Tail(text), Append(cur, Head(text)))

\* The chat template over alternating user / assistant pieces.  A closed piece
\* is wrapped in its role's start marker and <|im_end|>; an empty piece left
\* open for the assistant is the generation prompt, followed by the thinking
\* token when enable_thinking is set.
RECURSIVE chat_template(_, _, _)
chat_template(pieces, is_user, enable_thinking) ==
    LET start == IF is_user THEN IM_START_USER ELSE IM_START_ASSISTANT IN
    IF Len(pieces) = 1
    THEN IF Head(pieces) = <<>>
         THEN IF is_user THEN <<>>
              ELSE <<IM_START_ASSISTANT>>
                       \o (IF enable_thinking THEN <<THINK>> ELSE <<>>)
         ELSE <<start>> \o Head(pieces)
    ELSE (<<start>> \o Head(pieces) \o <<IM_END>>)
             \o chat_template(Tail(pieces), ~is_user, enable_thinking)

\* tiny_dashboard.utils.apply_chat(text, tokenizer, add_bos=False,
\* enable_thinking=...): "m<eot>" becomes
\* <|im_start|>user m <|im_end|> <|im_start|>assistant.
apply_chat(text, enable_thinking) ==
    chat_template(split_eot(text, <<>>), TRUE, enable_thinking)

\* -------------------------------------------------------------- tokenizer

\* The vocabulary: a token id is an index.  Every symbol is a token, and the
\* pair "a" "b" is merged into one token, as a subword tokenizer merges.
Vocab ==
    << <<"a">>, <<"b">>, <<"a", "b">>, <<" ">>, <<EOT>>, <<IM_START_USER>>,
       <<IM_START_ASSISTANT>>, <<IM_END>>, <<THINK>> >>

token_id(piece) == CHOOSE i \in 1..Len(Vocab) : Vocab[i] = piece

\* tokenizer.encode(text, add_special_tokens=False): greedy longest match.
RECURSIVE encode(_)
encode(text) ==
    IF text = <<>> THEN <<>>
    ELSE IF Len(text) >= 2 /\ text[1] = "a" /\ text[2] = "b"
         THEN <<token_id(<<"a", "b">>)>> \o encode(slice_from(text, 2))
         ELSE <<token_id(<<Head(text)>>)>> \o encode(Tail(text))

\* tokenizer.decode(ids, skip_special_tokens=False).
RECURSIVE decode(_)
decode(ids) ==
    IF ids = <<>> THEN <<>> ELSE Vocab[Head(ids)] \o decode(Tail(ids))

\* ------------------------------------------------------------ pure helpers

\* _build_prompt_for_model (lines 38-65), the builder display() does not call:
\* the whole conversation is passed through the chat template again.
RECURSIVE history_pieces(_, _)
history_pieces(history, use_chat_formatting) ==
    IF history = <<>> THEN <<>>
    ELSE LET turn == Head(history)
             sep == IF use_chat_formatting THEN <<EOT>> ELSE <<>>
         IN  turn["user"] \o sep
                 \o (IF "assistant" \in DOMAIN turn
                     THEN turn["assistant"] \o sep ELSE <<>>)
                 \o history_pieces(Tail(history), use_chat_formatting)

build_prompt_for_model(history, next_user_message, use_chat_formatting, enable_thinking) ==
    LET raw == history_pieces(history, use_chat_formatting) \o next_user_message
        prompt == IF use_chat_formatting
                  THEN apply_chat(raw \o <<EOT>>, enable_thinking)
                  ELSE raw
        user_segment == IF use_chat_formatting
                        THEN apply_chat(next_user_message \o <<EOT>>,
                                        enable_thinking)
                        ELSE next_user_message
    IN  <<prompt, user_segment>>

\* prev_formatted_parts of the builder: each turn's stored user segment, then
\* its assistant segment when the turn has one.
RECURSIVE prev_formatted_parts(_)
prev_formatted_parts(history) ==
    IF history = <<>> THEN <<>>
    ELSE LET turn == Head(history) IN
         <<turn["user"]>>
             \o (IF "assistant" \in DOMAIN turn
                 THEN <<turn["assistant"]>> ELSE <<>>)
             \o prev_formatted_parts(Tail(history))

\* The builder with a fault: the raw message is returned as the user segment.
build_returning_raw_message(history, next_user_message, use_chat_formatting, enable_thinking) ==
    LET user_segment == IF use_chat_formatting
                        THEN apply_chat(next_user_message \o <<EOT>>,
                                        enable_thinking)
                        ELSE next_user_message
    IN  <<join(prev_formatted_parts(history)) \o user_segment,
          next_user_message>>

\* _build_formatted_prompt_and_user_segment: <<full_formatted, user_segment>>.
build_formatted_prompt_and_user_segment(history, next_user_message, use_chat_formatting, enable_thinking) ==
    LET prev_formatted == join(prev_formatted_parts(history))
        user_segment == IF use_chat_formatting
                        THEN apply_chat(next_user_message \o <<EOT>>,
                                        enable_thinking)
                        ELSE next_user_message
    IN  <<prev_formatted \o user_segment, user_segment>>

\* The extractor with a fault: the prompt is cut by its length in characters,
\* as a string-prefix strip does.
strip_prompt_by_characters(generated_text, prompt_formatted) ==
    [ok |-> Len(generated_text) >= Len(prompt_formatted),
     text |-> slice_from(generated_text, Len(prompt_formatted))]

\* The extractor with a fault: the assertion of line 118 is missing.
strip_prompt_without_assert(generated_text, prompt_formatted) ==
    [ok |-> TRUE,
     text |-> decode(slice_from(encode(generated_text),
                                Len(encode(prompt_formatted))))]

\* The extractor with a fault: the assertion of line 118 is strict.
strip_prompt_strict(generated_text, prompt_formatted) ==
    LET prompt_ids == encode(prompt_formatted)
        output_ids == encode(generated_text)
    IN  [ok |-> Len(output_ids) > Len(prompt_ids),
         text |-> decode(slice_from(output_ids, Len(prompt_ids)))]

\* _strip_prompt_from_output: ok is FALSE when the assertion of line 118
\* fails; text is the decoded remainder.
strip_prompt_from_output(generated_text, prompt_formatted) ==
    LET prompt_ids == encode(prompt_formatted)
        output_ids == encode(generated_text)
    IN  [ok |-> Len(output_ids) >= Len(prompt_ids),
         text |-> decode(slice_from(output_ids, Len(prompt_ids)))]

\* ---------------------------------------------------------- session state

\* st.session_state: a dictionary from the key names of _session_keys to
\* values.  A key that was never written is absent from the DOMAIN.
\* pc: where the display() script stands.
\*   "idle"      no script run is active, the page waits for the user
\*   "gen_base"  generate_text(model_type="base") was called and has not returned
\*   "got_base"  it returned reply_base; extraction and append are next
\*   "gen_ft", "got_ft"  the same for the finetuned model
\*   "rerun"     st.rerun() was called; the script runs again from the top
\* locals: the local variables of the display() run in progress.
\* outcome: how the last script run ended.
\* migrations, cleared, sent: history variables, written and never read by the
\* script: the number of times the migration body ran, whether Clear was the
\* last change of the histories, and per target the prompt and reply of the
\* last appended turn.
VARIABLES session_state, pc, locals, outcome, migrations, cleared, sent

\* The module state of utils/model.py and the load_model call in progress.
\* MODEL_CACHE, TOKENIZER_CACHE: the dictionaries of lines 12-13, from key
\* texts to objects.
\* lm_pc: "idle" when no load_model call is active, "loading" between the
\* cache miss of line 100 and the cache writes of lines 131-132.
\* lm_call: the arguments of the last load_model call.
\* lm_result: what the last load_model call returned, or the error it raised.
\* loads, lm_returned: history variables: the number of calls that went on to
\* load a model, and per key what the call that cached it returned.
VARIABLES MODEL_CACHE, TOKENIZER_CACHE, lm_pc, lm_call, lm_result, loads, lm_returned

cache_vars == <<MODEL_CACHE, TOKENIZER_CACHE, lm_pc, lm_call, lm_result, loads, lm_returned>>

dashboard_vars == <<session_state, pc, locals, outcome, migrations, cleared, sent>>

vars == <<dashboard_vars, cache_vars>>

Targets == {"base", "finetuned"}

\* Line 313 with a fault: the finetuned turn goes to the base history.
history_key_base(model_key) == "history_base"

history_key(model_key) ==
    IF model_key = "base" THEN "history_base" ELSE "history_ft"

\* session_state[key] = value.
put(s, key, value) ==
    [k \in DOMAIN s \cup {key} |-> IF k = key THEN value ELSE s[k]]

\* The guard of the defaults with a fault: the key is written every time.
setdefault_overwriting(s, key, value) == put(s, key, value)

\* if key not in session_state: session_state[key] = value.
setdefault(s, key, value) ==
    IF key \in DOMAIN s THEN s ELSE put(s, key, value)

\* The method's configuration offers the thinking switch.
has_thinking == TRUE

\* What the user can have typed in the text area.
Inputs == {<<>>, <<" ">>, <<" ", "a">>}

\* Legacy aggregated histories an older version can have left in the session.
legacy_turn(fields) ==
    [k \in fields |->
        IF k = "user" THEN <<"a">> ELSE IF k = "base" THEN <<"b">> ELSE <<"a">>]

LegacyLists ==
    { <<legacy_turn({"user", "base", "finetuned"})>>,
      <<legacy_turn({"user", "finetuned"}), legacy_turn({"user"})>>,
      <<legacy_turn({"user", "base"}), legacy_turn({"base", "finetuned"})>>,
      <<[user |-> <<>>, base |-> <<"b">>]>> }

\* What generate_text can return for a prompt: the prompt and a continuation,
\* the prompt cut short, or a text that is longer than the prompt and does not
\* start with it.
Continuations == {<<>>, <<"b">>}

Replies(prompt) ==
    {prompt \o c : c \in Continuations}
        \cup {Tail(prompt), <<"b">> \o prompt}

\* calls and returned are history variables of the run: the model types
\* generate_text was called with, in order, and how many calls have come back.
NoLocals ==
    [msg |-> <<>>, prompt |-> <<>>, user_segment |-> <<>>, reply |-> <<>>,
     pre_base |-> <<>>, pre_ft |-> <<>>, calls |-> <<>>, returned |-> 0]

\* -------------------------------------------------------------- migration

\* The loop with a fault: "elif" for the finetuned field, so a turn that has a
\* base field never reaches the finetuned history.
RECURSIVE migrate_loop_elif(_, _, _)
migrate_loop_elif(legacy, i, s) ==
    IF i > Len(legacy) THEN [session |-> s, raised |-> FALSE]
    ELSE LET turn == legacy[i] IN
         IF "user" \notin DOMAIN turn THEN [session |-> s, raised |-> TRUE]
         ELSE migrate_loop_elif(legacy, i + 1,
                  IF "base" \in DOMAIN turn
                  THEN put(s, "history_base",
                           Append(s["history_base"],
                                  [user |-> turn["user"],
                                   assistant |-> turn["base"]]))
                  ELSE IF "finetuned" \in DOMAIN turn
                  THEN put(s, "history_ft",
                           Append(s["history_ft"],
                                  [user |-> turn["user"],
                                   assistant |-> turn["finetuned"]]))
                  ELSE s)

\* The loop of lines 170-175 from turn i on.  raised: the assertion of line
\* 171 failed; the turns appended before it stay appended.
RECURSIVE migrate_loop(_, _, _)
migrate_loop(legacy, i, s) ==
    IF i > Len(legacy) THEN [session |-> s, raised |-> FALSE]
    ELSE LET turn == legacy[i] IN
         IF "user" \notin DOMAIN turn THEN [session |-> s, raised |-> TRUE]
         ELSE LET s1 == IF "base" \in DOMAIN turn
                        THEN put(s, "history_base",
                                 Append(s["history_base"],
                                        [user |-> turn["user"],
                                         assistant |-> turn["base"]]))
                        ELSE s
                  s2 == IF "finetuned" \in DOMAIN turn
                        THEN put(s1, "history_ft",
                                 Append(s1["history_ft"],
                                        [user |-> turn["user"],
                                         assistant |-> turn["finetuned"]]))
                        ELSE s1
              IN  migrate_loop(legacy, i + 1, s2)

\* The guard with a fault: the legacy key alone decides.
migration_due_if_legacy_present(s) == "history" \in DOMAIN s

\* The guard of line 167.
migration_due(s) ==
    /\ "history" \in DOMAIN s
    /\ s["history_base"] = <<>>
    /\ s["history_ft"] = <<>>

\* The migration step with a fault: the legacy key is deleted once its turns
\* were copied.
migrate_consuming(s) ==
    IF migration_due(s)
    THEN LET r == migrate_loop(s["history"], 1, s) IN
         [session |-> [k \in DOMAIN r.session \ {"history"} |-> r.session[k]],
          raised |-> r.raised, ran |-> TRUE]
    ELSE [session |-> s, raised |-> FALSE, ran |-> FALSE]

\* Lines 166-175: the migration step.  ran: the body was entered.
migrate(s) ==
    IF migration_due(s)
    THEN LET r == migrate_loop(s["history"], 1, s) IN
         [session |-> r.session, raised |-> r.raised, ran |-> TRUE]
    ELSE [session |-> s, raised |-> FALSE, ran |-> FALSE]

\* Lines 162-165.
history_defaults(s) ==
    setdefault(setdefault(s, "history_base", <<>>), "history_ft", <<>>)

\* Lines 176-191.  The temperature is in tenths.
settings_defaults(s) ==
    LET s1 == setdefault(s, "input", <<>>)
        s2 == setdefault(s1, "use_chat", TRUE)
        s3 == setdefault(s2, "temperature", 10)
        s4 == setdefault(s3, "max_length", 200)
        s5 == setdefault(s4, "do_sample", TRUE)
        s6 == setdefault(s5, "thinking", FALSE)
        s7 == setdefault(s6, "reset_input", FALSE)
    IN  setdefault(s7, "send_target", "both")

\* Lines 193-196.
handle_reset(s) ==
    IF s["reset_input"]
    THEN put(put(s, "input", <<>>), "reset_input", FALSE)
    ELSE s

\* Lines 161-196: display() up to the widgets.  When the migration raises,
\* the script ends there and the session keeps what was written so far.
display_head(s) ==
    LET m == migrate(history_defaults(s)) IN
    IF m.raised THEN m
    ELSE [session |-> handle_reset(settings_defaults(m.session)),
          raised |-> FALSE, ran |-> m.ran]

count_migration(ran) ==
    IF ran /\ migrations < MigrationCap THEN migrations + 1 ELSE migrations

\* The widgets of lines 198-264 are on the page: the last script run got
\* past the migration.
widgets_rendered ==
    /\ pc = "idle"
    /\ outcome \notin {"none", "AssertionError: Legacy turn missing 'user'"}

\* The stored turn with a fault: the reply is left out.
new_turn_without_reply(user_segment, assistant_only) ==
    [user |-> user_segment]

\* The turn of lines 298 and 313.
new_turn(user_segment, assistant_only) ==
    [user |-> user_segment, assistant |-> assistant_only]

\* ------------------------------------------------ utils/model.py: the cache

\* The number of load_model calls that go on to load a model.
MaxLoads == 2

\* An optional argument: None, or a text.
None == [given |-> FALSE, text |-> <<>>]

Some(text) == [given |-> TRUE, text |-> text]

\* An optional layer index: None, or an integer.
NoLayer == [given |-> FALSE, value |-> 0]

Layer(n) == [given |-> TRUE, value |-> n]

\* str() of an optional text, as the f-string of line 97 renders it.
str_text(x) == IF x.given THEN x.text ELSE <<"None">>

\* str() of a natural number.
RECURSIVE str_int(_)
str_int(n) ==
    LET digit == <<"0", "1", "2", "3", "4", "5", "6", "7", "8", "9">> IN
    IF n < 10 THEN <<digit[n + 1]>>
    ELSE str_int(n \div 10) \o <<digit[(n % 10) + 1]>>

\* The arguments load_model is called with.  no_auto_device_map only picks
\* the device and is left out.
ModelNames == {<<"m">>}

Dtypes == {<<"torch.bfloat16">>}

AttnImplementations == {<<"eager">>}

AdapterIds == {None, Some(<<"x">>), Some(<<"x", "_", "s", "_", "1">>)}

SteeringVectorNames == {None, Some(<<"s">>)}

SteeringLayers == {NoLayer, Layer(1)}

\* The last tokenizer id is, as a text, the cache key of a call.
TokenizerIds ==
    {None, Some(<<"t">>),
     Some(<<"m", "_", "torch.bfloat16", "_", "eager", "_", "None">>)}

LoadModelCalls ==
    [model_name : ModelNames, dtype : Dtypes,
     attn_implementation : AttnImplementations, adapter_id : AdapterIds,
     steering_vector_name : SteeringVectorNames,
     steering_layer_idx : SteeringLayers, tokenizer_id : TokenizerIds]

\* Lines 98 and 126: both steering arguments are given.
steered(call) ==
    call.steering_vector_name.given /\ call.steering_layer_idx.given

\* Lines 97-99: the cache key of a call.
cache_key(call) ==
    LET key == call.model_name \o <<"_">> \o call.dtype \o <<"_">>
                   \o call.attn_implementation \o <<"_">>
                   \o str_text(call.adapter_id)
    IN  IF steered(call)
        THEN key \o <<"_">> \o str_text(call.steering_vector_name)
                 \o <<"_">> \o str_int(call.steering_layer_idx.value)
        ELSE key

\* The object a from_pretrained call creates: load tells the objects of
\* different calls apart.
new_object(kind, name, load) == [kind |-> kind, name |-> name, load |-> load]

NoObject == new_object("none", <<>>, 0)

\* load_tokenizer, lines 20-23, in the load_model call number load.
load_tokenizer(model_name, load) ==
    IF model_name \in DOMAIN TOKENIZER_CACHE
    THEN TOKENIZER_CACHE[model_name]
    ELSE new_object("tokenizer", model_name, load)

NoCall ==
    [model_name |-> <<>>, dtype |-> <<>>, attn_implementation |-> <<>>,
     adapter_id |-> None, steering_vector_name |-> None,
     steering_layer_idx |-> NoLayer, tokenizer_id |-> None]

\* What a load_model call gives its caller.
result(status, model, tokenizer) ==
    [status |-> status, model |-> model, tokenizer |-> tokenizer]

\* Lines 12-13: the module is imported and load_model was not called.
cache_init ==
    /\ MODEL_CACHE = <<>>
    /\ TOKENIZER_CACHE = <<>>
    /\ lm_pc = "idle"
    /\ lm_call = NoCall
    /\ lm_result = result("none", NoObject, NoObject)
    /\ loads = 0
    /\ lm_returned = <<>>

\* ---------------------------------------------------------------- actions

Init ==
    /\ session_state \in {<<>>} \cup {[history |-> l] : l \in LegacyLists}
    /\ pc = "idle"
    /\ locals = NoLocals
    /\ outcome = "none"
    /\ migrations = 0
    /\ cleared = FALSE
    /\ sent = [t \in Targets |-> <<>>]
    /\ cache_init

\* The script ends with an uncaught exception: the page shows the error and
\* the session keeps what was written before it.
Raise(s, error, ran) ==
    /\ session_state' = s
    /\ pc' = "idle"
    /\ locals' = NoLocals
    /\ outcome' = error
    /\ migrations' = count_migration(ran)
    /\ UNCHANGED <<cleared, sent, cache_vars>>

\* A run of display() from session s with no button clicked; thinking is the
\* value the checkbox of line 230 returns.
Render(s, thinking) ==
    LET h == display_head(s) IN
    IF h.raised
    THEN Raise(h.session, "AssertionError: Legacy turn missing 'user'", h.ran)
    ELSE /\ session_state' =
                IF has_thinking THEN put(h.session, "thinking", thinking)
                ELSE h.session
         /\ pc' = "idle"
         /\ locals' = NoLocals
         /\ outcome' = "ok"
         /\ migrations' = count_migration(h.ran)
         /\ UNCHANGED <<cleared, sent, cache_vars>>

\* The value the thinking checkbox returns when the user leaves it alone.
kept_thinking(s) == IF "thinking" \in DOMAIN s THEN s["thinking"] ELSE FALSE

\* The script runs with no widget changed: the first load of the page, or
\* the run that st.rerun() asked for.
Load ==
    /\ pc \in {"idle", "rerun"}
    /\ Render(session_state, kept_thinking(session_state))

\* The user edits the text area (key "input").
SetInput(text) ==
    /\ widgets_rendered
    /\ text # session_state["input"]
    /\ Render(put(session_state, "input", text), session_state["thinking"])

\* The user toggles "Use Chat Formatting" (key "use_chat").
SetUseChat ==
    /\ widgets_rendered
    /\ Render(put(session_state, "use_chat", ~session_state["use_chat"]),
              session_state["thinking"])

\* The user toggles "Enable Thinking" (lines 229-234).
SetThinking ==
    /\ widgets_rendered
    /\ has_thinking
    /\ Render(session_state, ~session_state["thinking"])

\* The user picks a target in the "Send to" radio (key "send_target").
SetSendTarget(target) ==
    /\ widgets_rendered
    /\ target # session_state["send_target"]
    /\ Render(put(session_state, "send_target", target),
              session_state["thinking"])

\* The user clicks Clear: lines 266-270.
Clear ==
    /\ widgets_rendered
    /\ LET h == display_head(session_state) IN
       IF h.raised
       THEN Raise(h.session, "AssertionError: Legacy turn missing 'user'", h.ran)
       ELSE /\ session_state' =
                   put(put(put(h.session, "history_base", <<>>),
                           "history_ft", <<>>),
                       "reset_input", TRUE)
            /\ pc' = "rerun"
            /\ locals' = NoLocals
            /\ outcome' = "rerun"
            /\ migrations' = count_migration(h.ran)
            /\ cleared' = TRUE
            /\ sent' = [t \in Targets |-> <<>>]
            /\ UNCHANGED cache_vars

\* Lines 285-288 and 300-303: the prompt for model_key is built and
\* generate_text is called.
Dispatch(s, model_key, msg, pre_base, pre_ft) ==
    LET built == build_formatted_prompt_and_user_segment(
                     s[history_key(model_key)], msg,
                     s["use_chat"], s["thinking"])
    IN  /\ locals' = [msg |-> msg, prompt |-> built[1],
                      user_segment |-> built[2], reply |-> <<>>,
                      pre_base |-> pre_base, pre_ft |-> pre_ft,
                      calls |-> Append(locals.calls, model_key),
                      returned |-> locals.returned]
        /\ pc' = IF model_key = "base" THEN "gen_base" ELSE "gen_ft"

\* The histories have room for the turns this Send would append.
RoomFor(s, send_target) ==
    Len(s["history_base"]) + Len(s["history_ft"])
        + (IF send_target = "both" THEN 2 ELSE 1) <= MaxTurns

\* Line 273 with a fault: the input is not trimmed.
pending_message_untrimmed(s) == s["input"]

\* Line 273: the trimmed input.
pending_message(s) == strip(s["input"])

\* Lines 285 and 300 with a fault: the finetuned model goes first.
first_target_finetuned(send_target) ==
    IF send_target \in {"both", "finetuned"} THEN "finetuned" ELSE "base"

\* Lines 285 and 300: the model a Send calls first.
first_target(send_target) ==
    IF send_target \in {"both", "base"} THEN "base" ELSE "finetuned"

\* The user clicks Send: lines 272-296, up to the first generate_text call.
Send ==
    /\ widgets_rendered
    /\ LET h == display_head(session_state)
           s == h.session
       IN
       IF h.raised
       THEN Raise(s, "AssertionError: Legacy turn missing 'user'", h.ran)
       ELSE LET msg == pending_message(s) IN
            IF Len(msg) = 0
            THEN Raise(s, "AssertionError: Message cannot be empty", h.ran)
            ELSE /\ RoomFor(s, s["send_target"])
                 /\ session_state' = s
                 /\ outcome' = "generating"
                 /\ migrations' = count_migration(h.ran)
                 /\ Dispatch(s, first_target(s["send_target"]), msg,
                             s["history_base"], s["history_ft"])
                 /\ UNCHANGED <<cleared, sent, cache_vars>>

current_key == IF pc \in {"gen_base", "got_base"} THEN "base" ELSE "finetuned"

\* generate_text raises, with a fault: the call is made again.
GenerateRaisesAndRetries ==
    /\ pc \in {"gen_base", "gen_ft"}
    /\ locals' = [locals EXCEPT !.calls = Append(locals.calls, current_key),
                                !.returned = locals.returned + 1]
    /\ UNCHANGED <<session_state, pc, outcome, migrations, cleared, sent,
                   cache_vars>>

\* generate_text raises: the exception is not caught and ends the script.
GenerateRaises ==
    /\ pc \in {"gen_base", "gen_ft"}
    /\ Raise(session_state, "BackendError", FALSE)

\* generate_text returns reply.
GenerateReturns ==
    /\ pc \in {"gen_base", "gen_ft"}
    /\ \E reply \in Replies(locals.prompt) :
           locals' = [locals EXCEPT !.reply = reply,
                                    !.returned = locals.returned + 1]
    /\ pc' = IF pc = "gen_base" THEN "got_base" ELSE "got_ft"
    /\ UNCHANGED <<session_state, outcome, migrations, cleared, sent,
                   cache_vars>>

\* Lines 297-298 and 312-315: the reply is stripped of the prompt and the turn
\* is appended; then the finetuned model is dispatched, or the input reset is
\* scheduled and the script reruns.
Extract ==
    /\ pc \in {"got_base", "got_ft"}
    /\ LET model_key == current_key
           e == strip_prompt_from_output(locals.reply, locals.prompt)
           turn == new_turn(locals.user_segment, e.text)
           s == put(session_state, history_key(model_key),
                    Append(session_state[history_key(model_key)], turn))
       IN
       IF ~e.ok
       THEN Raise(session_state, "AssertionError: Output shorter than prompt",
                  FALSE)
       ELSE /\ cleared' = FALSE
            /\ sent' = [sent EXCEPT ![model_key] = locals.prompt \o e.text]
            /\ UNCHANGED <<migrations, cache_vars>>
            /\ IF model_key = "base" /\ s["send_target"] = "both"
               THEN /\ session_state' = s
                    /\ outcome' = "generating"
                    /\ Dispatch(s, "finetuned", locals.msg,
                                locals.pre_base, locals.pre_ft)
               ELSE /\ session_state' = put(s, "reset_input", TRUE)
                    /\ pc' = "rerun"
                    /\ locals' = locals
                    /\ outcome' = "rerun"

Next ==
    \/ Load
    \/ \E text \in Inputs : SetInput(text)
    \/ SetUseChat
    \/ SetThinking
    \/ \E target \in {"both", "base", "finetuned"} : SetSendTarget(target)
    \/ Clear
    \/ Send
    \/ GenerateRaises
    \/ GenerateReturns
    \/ Extract

Spec == Init /\ [][Next]_vars

\* --------------------------------------------- utils/model.py: load_model

\* load_model is called: lines 97-104.  On a cache hit it returns the cached
\* pair, and the lookup of line 101 raises KeyError when the tokenizer cache
\* has no such key; on a miss the loading begins.
load_model(call) ==
    LET key == cache_key(call) IN
    /\ lm_pc = "idle"
    /\ lm_call' = call
    /\ IF key \in DOMAIN MODEL_CACHE
       THEN /\ lm_result' =
                   IF key \in DOMAIN TOKENIZER_CACHE
                   THEN result("returned", MODEL_CACHE[key],
                               TOKENIZER_CACHE[key])
                   ELSE result("KeyError", NoObject, NoObject)
            /\ UNCHANGED <<lm_pc, loads>>
       ELSE /\ loads < MaxLoads
            /\ lm_pc' = "loading"
            /\ loads' = loads + 1
            /\ lm_result' = result("loading", NoObject, NoObject)
    /\ UNCHANGED <<MODEL_CACHE, TOKENIZER_CACHE, lm_returned, dashboard_vars>>

\* The loading with a fault: the model is cached as soon as it is loaded, and
\* a later step of the loading raises.
load_model_raises_after_caching ==
    /\ lm_pc = "loading"
    /\ lm_pc' = "idle"
    /\ lm_result' = result("raised", NoObject, NoObject)
    /\ MODEL_CACHE' = put(MODEL_CACHE, cache_key(lm_call),
                          new_object("model", lm_call.model_name, loads))
    /\ UNCHANGED <<TOKENIZER_CACHE, lm_call, loads, lm_returned,
                   dashboard_vars>>

\* Lines 106-129: from_pretrained, load_adapter, load_tokenizer or
\* load_steering_vector raises; the exception leaves load_model.
load_model_raises ==
    /\ lm_pc = "loading"
    /\ lm_pc' = "idle"
    /\ lm_result' = result("raised", NoObject, NoObject)
    /\ UNCHANGED <<MODEL_CACHE, TOKENIZER_CACHE, lm_call, loads, lm_returned,
                   dashboard_vars>>

\* Lines 106-134: the loading succeeds, both caches are written under the
\* key and the pair is returned.
load_model_stores ==
    /\ lm_pc = "loading"
    /\ LET key == cache_key(lm_call)
           model == new_object("model", lm_call.model_name, loads)
           tokenizer ==
               IF lm_call.tokenizer_id.given
               THEN load_tokenizer(lm_call.tokenizer_id.text, loads)
               ELSE load_tokenizer(lm_call.model_name, loads)
       IN  /\ MODEL_CACHE' = put(MODEL_CACHE, key, model)
           /\ TOKENIZER_CACHE' = put(TOKENIZER_CACHE, key, tokenizer)
           /\ lm_result' = result("returned", model, tokenizer)
           /\ lm_returned' = put(lm_returned, key,
                                 result("returned", model, tokenizer))
    /\ lm_pc' = "idle"
    /\ UNCHANGED <<lm_call, loads, dashboard_vars>>

CacheNext ==
    \/ \E call \in LoadModelCalls : load_model(call)
    \/ load_model_raises
    \/ load_model_stores

\* load_model called again and again in a process where the dashboard has not
\* been opened.
CacheInit == Init /\ session_state = <<>>

CacheSpec == CacheInit /\ [][CacheNext]_vars

\* ------------------------------------------------- vocabulary of the claims

IsPrefix(p, t) == Len(p) <= Len(t) /\ SubSeq(t, 1, Len(p)) = p

\* The history stored under key, empty while the key is absent.
stored(key) ==
    IF key \in DOMAIN session_state THEN session_state[key] ELSE <<>>

\* The stored user and assistant segments of a history, concatenated in order.
RECURSIVE segments_text(_)
segments_text(history) ==
    IF history = <<>> THEN <<>>
    ELSE Head(history)["user"]
             \o (IF "assistant" \in DOMAIN Head(history)
                 THEN Head(history)["assistant"] ELSE <<>>)
             \o segments_text(Tail(history))

InFlight == pc \in {"gen_base", "got_base", "gen_ft", "got_ft"}

SendFailures ==
    {"BackendError", "AssertionError: Output shorter than prompt"}

\* The messages a later Send can carry.
Messages == {strip(i) : i \in Inputs} \ {<<>>}

\* ---------------------------------------------------------------------- C1

\* C1: prefix continuity.  For either target, once a send has built the
\* prompt P and appended the turn with the reply a, the stored segments of the
\* history concatenate to P a, and every prompt built for that target
\* afterwards (with no Clear in between) starts with P a, whatever
\* use_chat_formatting and enable_thinking are on the later send.  sent[t] is
\* P a of the last turn appended to t.
C1_PrefixContinuity ==
    \A t \in Targets :
        sent[t] # <<>> =>
            /\ segments_text(stored(history_key(t))) = sent[t]
            /\ \A m \in Messages, use_chat \in BOOLEAN, thinking \in BOOLEAN :
                   IsPrefix(sent[t],
                            build_formatted_prompt_and_user_segment(
                                stored(history_key(t)), m, use_chat,
                                thinking)[1])
            /\ (InFlight /\ current_key = t)
                   => IsPrefix(sent[t], locals.prompt)

\* A second send to the base model is in flight, in chat formatting, after a
\* first one appended its turn.
C1_Witness ==
    /\ pc = "gen_base"
    /\ sent["base"] # <<>>
    /\ session_state["use_chat"]
    /\ Len(locals.prompt) > Len(sent["base"])

\* ---------------------------------------------------------------------- C2

\* C2: a send in which generation or extraction fails for a selected target
\* leaves both histories as they were before that send; with send_target
\* "both", a failure of the finetuned call leaves no new turn in the base
\* history.
C2_FailedSendLeavesHistories ==
    [][(InFlight /\ outcome' \in SendFailures)
          => /\ session_state'["history_base"] = locals.pre_base
             /\ session_state'["history_ft"] = locals.pre_ft]_vars

\* ---------------------------------------------------------------------- C3

\* C3: the legacy migration runs at most once per session: once its body has
\* run, no later display() enters it again, whatever Send and Clear did in
\* between.
C3_MigrationAtMostOnce == migrations <= 1

\* ---------------------------------------------------------------------- C4

\* C4: atomic clear.  From Clear until the next appended turn, in every state
\* the page can show, the rerun that Clear triggers included, both histories
\* are empty.
C4_ClearedStaysEmpty ==
    (cleared /\ pc = "idle")
        => stored("history_base") = <<>> /\ stored("history_ft") = <<>>

\* ---------------------------------------------------------------------- C5

well_formed(legacy) == \A i \in 1..Len(legacy) : "user" \in DOMAIN legacy[i]

\* The legacy turns that have field, in order, as per-target turns.
RECURSIVE legacy_turns_of(_, _)
legacy_turns_of(legacy, field) ==
    IF legacy = <<>> THEN <<>>
    ELSE (IF field \in DOMAIN Head(legacy)
          THEN <<[user |-> Head(legacy)["user"],
                  assistant |-> Head(legacy)[field]]>>
          ELSE <<>>)
             \o legacy_turns_of(Tail(legacy), field)

\* C5: migration idempotence.  From every session state in which display()
\* can start, running the migration step twice in a row leaves the same
\* histories as running it once: the second run appends nothing.  And however
\* often display() has run, while no turn has been appended by a send the
\* histories of a session with a well-formed legacy list hold each legacy
\* turn once.
C5_MigrationIdempotent ==
    /\ pc \in {"idle", "rerun"} =>
           LET once == migrate(history_defaults(session_state))
               twice == migrate(once.session)
           IN  /\ twice.session["history_base"] = once.session["history_base"]
               /\ twice.session["history_ft"] = once.session["history_ft"]
    /\ ( /\ pc = "idle"
         /\ outcome # "none"
         /\ "history" \in DOMAIN session_state
         /\ well_formed(session_state["history"])
         /\ \A t \in Targets : sent[t] = <<>> )
           => /\ stored("history_base")
                     = legacy_turns_of(session_state["history"], "base")
              /\ stored("history_ft")
                     = legacy_turns_of(session_state["history"], "finetuned")

\* The migration has run and appended legacy turns.
C5_Witness ==
    /\ pc = "idle"
    /\ migrations = 1
    /\ "history" \in DOMAIN session_state
    /\ stored("history_base") # <<>>
    /\ stored("history_ft") # <<>>

\* ---------------------------------------------------------------------- C6

history_of(s, t) == s[history_key(t)]

other(t) == IF t = "base" THEN "finetuned" ELSE "base"

\* The reply has at least as many tokens as the prompt.
long_enough(reply, prompt) == Len(encode(reply)) >= Len(encode(prompt))

\* C7: no partial turn.  Every stored turn has a user and an assistant field.
\* During a send, target t's history gains one turn at its end in the step in
\* which t's generation call has returned and its reply passes the
\* extraction, whatever happened or will happen to the other target, and in
\* every other step of the send it stays as it is: a step in which a target
\* fails changes neither history, so a turn the other target appended earlier
\* in the same send stays.
C7_NoPartialTurn ==
    /\ [](\A t \in Targets :
             \A i \in 1..Len(stored(history_key(t))) :
                 DOMAIN stored(history_key(t))[i] = {"user", "assistant"})
    /\ [][InFlight =>
             \A t \in Targets :
                 IF /\ pc = (IF t = "base" THEN "got_base" ELSE "got_ft")
                    /\ long_enough(locals.reply, locals.prompt)
                 THEN /\ Len(history_of(session_state', t))
                             = Len(history_of(session_state, t)) + 1
                      /\ SubSeq(history_of(session_state', t), 1,
                                Len(history_of(session_state, t)))
                             = history_of(session_state, t)
                      /\ history_of(session_state', other(t))
                             = history_of(session_state, other(t))
                 ELSE history_of(session_state', t)
                          = history_of(session_state, t)
         ]_vars

\* With send_target "both", the base turn is stored while the finetuned call
\* is still in flight.
C7_Witness ==
    /\ pc = "gen_ft"
    /\ session_state["send_target"] = "both"
    /\ Len(session_state["history_base"]) = Len(locals.pre_base) + 1
    /\ session_state["history_ft"] = locals.pre_ft

\* ---------------------------------------------------------------------- C8

\* A history with a turn that has no assistant segment, and the text of its
\* segments.
ProbeHistory ==
    <<[user |-> <<"a">>],
      [user |-> <<IM_START_USER, "b", IM_END, IM_START_ASSISTANT>>,
       assistant |-> <<"a", EOT>>]>>

ProbeText ==
    <<"a", IM_START_USER, "b", IM_END, IM_START_ASSISTANT, "a", EOT>>

\* The user segment of message m: m itself without chat formatting, the chat
\* template applied to m and the end-of-turn marker with it.
expected_user_segment(m, use_chat, thinking) ==
    IF use_chat THEN apply_chat(Append(m, EOT), thinking) ELSE m

\* C8: prompt builder result.  While a generation call for a target is
\* dispatched, the prompt sent is the stored user and assistant segments of
\* that target's history in order, followed by the user segment; the user
\* segment is the trimmed message unchanged without chat formatting and the
\* chat template of the message and <eot> with it.  Stored segments are taken
\* as they are, also for a turn that has no assistant segment.
C8_PromptBuilderResult ==
    /\ InFlight =>
           LET seg == expected_user_segment(strip(session_state["input"]),
                                            session_state["use_chat"],
                                            session_state["thinking"])
           IN  /\ locals.user_segment = seg
               /\ locals.prompt
                      = segments_text(session_state[history_key(current_key)])
                            \o seg
    /\ \A m \in Messages, use_chat \in BOOLEAN, thinking \in BOOLEAN :
           build_formatted_prompt_and_user_segment(ProbeHistory, m, use_chat,
                                                   thinking)
               = <<ProbeText \o expected_user_segment(m, use_chat, thinking),
                   expected_user_segment(m, use_chat, thinking)>>

\* A prompt for a non-empty history is in flight with chat formatting and
\* thinking on.
C8_Witness ==
    /\ pc = "gen_ft"
    /\ session_state["history_ft"] # <<>>
    /\ session_state["use_chat"]
    /\ session_state["thinking"]
    /\ Len(locals.prompt) > Len(locals.user_segment)

\* ---------------------------------------------------------------------- C9

\* The last turn of target t's history.
last_turn(s, t) == history_of(s, t)[Len(history_of(s, t))]

\* C9: extraction.  When the reply O has at least as many tokens as the
\* prompt P, the assistant text stored is the decoding, special tokens kept,
\* of the tokens of O from position len(P) on, whether or not O starts with P.
C9_ExtractionByTokenCount ==
    [][(pc \in {"got_base", "got_ft"}
            /\ long_enough(locals.reply, locals.prompt))
          => LET O == encode(locals.reply)
                 P == encode(locals.prompt)
                 rest == [i \in 1..(Len(O) - Len(P)) |-> O[Len(P) + i]]
             IN  /\ Len(history_of(session_state', current_key))
                        = Len(history_of(session_state, current_key)) + 1
                 /\ last_turn(session_state', current_key)["assistant"]
                        = decode(rest)
       ]_vars

\* A reply that does not start with the prompt was cut at the prompt's token
\* count, and the text kept is a special token.
C9_Witness ==
    /\ pc = "rerun"
    /\ locals.reply # <<>>
    /\ ~IsPrefix(locals.prompt, locals.reply)
    /\ session_state["send_target"] = "finetuned"
    /\ session_state["history_ft"] # <<>>
    /\ last_turn(session_state, "finetuned")["assistant"]
           = <<IM_START_ASSISTANT>>

\* --------------------------------------------------------------------- C10

\* C10: extraction failure.  When the reply has fewer tokens than the prompt,
\* the extraction raises, the script ends, and no turn is appended.
C10_ShortReplyFails ==
    [][(pc \in {"got_base", "got_ft"}
            /\ ~long_enough(locals.reply, locals.prompt))
          => /\ outcome' = "AssertionError: Output shorter than prompt"
             /\ pc' = "idle"
             /\ session_state' = session_state
       ]_vars

\* The extraction has failed on a short reply in a send to the finetuned
\* model alone, whose history is still empty.
C10_Witness ==
    /\ pc = "idle"
    /\ outcome = "AssertionError: Output shorter than prompt"
    /\ session_state["send_target"] = "finetuned"
    /\ session_state["history_ft"] = <<>>

\* --------------------------------------------------------------------- C11

\* C11: empty continuation.  When generate_text returns exactly the prompt,
\* the extraction does not raise and the send goes on: a turn whose assistant
\* text is empty is appended to the history of the model that was called.
C11_EmptyContinuation ==
    [][(pc \in {"got_base", "got_ft"} /\ locals.reply = locals.prompt)
          => /\ outcome' \in {"generating", "rerun"}
             /\ pc' \in {"gen_ft", "rerun"}
             /\ history_of(session_state', current_key)
                    = Append(history_of(session_state, current_key),
                             [user |-> locals.user_segment,
                              assistant |-> <<>>])
       ]_vars

\* A send to the base model alone has completed on a reply equal to its
\* prompt, and the turn stored has an empty assistant text.
C11_Witness ==
    /\ pc = "rerun"
    /\ locals.msg # <<>>
    /\ locals.reply = locals.prompt
    /\ session_state["send_target"] = "base"
    /\ session_state["history_base"] # <<>>
    /\ last_turn(session_state, "base")["assistant"] = <<>>

\* --------------------------------------------------------------------- C13

\* C13: in every reachable state, every turn stored in the base or the
\* finetuned history has a non-empty user field.
C13_UserNonEmpty ==
    \A key \in {"history_base", "history_ft"} :
        \A i \in 1..Len(stored(key)) :
            /\ "user" \in DOMAIN stored(key)[i]
            /\ stored(key)[i]["user"] # <<>>

\* --------------------------------------------------------------------- C14

\* C14: a Send whose message is empty after trimming ends at once with
\* "Message cannot be empty": no prompt is built, generate_text is not called
\* and both histories stay as they were; a Send is dispatched only with a
\* message that is non-empty after trimming.
C14_EmptyMessageFailsFast ==
    [][(/\ pc = "idle"
        /\ \/ pc' \in {"gen_base", "gen_ft"}
           \/ outcome' = "AssertionError: Message cannot be empty")
          => IF strip(session_state["input"]) = <<>>
             THEN /\ outcome' = "AssertionError: Message cannot be empty"
                  /\ pc' = "idle"
                  /\ locals' = NoLocals
                  /\ stored("history_base")' = stored("history_base")
                  /\ stored("history_ft")' = stored("history_ft")
             ELSE /\ pc' \in {"gen_base", "gen_ft"}
                  /\ locals'.msg = strip(session_state["input"])
       ]_vars

\* A Send of a message of white space alone has failed.
C14_Witness ==
    /\ pc = "idle"
    /\ outcome = "AssertionError: Message cannot be empty"
    /\ "input" \in DOMAIN session_state
    /\ session_state["input"] = <<" ">>
    /\ stored("history_base") # <<>>

\* --------------------------------------------------------------------- C15

\* The generate_text calls of the run in progress that have not come back.
calls_in_flight == Len(locals.calls) - locals.returned

\* C15: dispatch order.  With send_target "both" a Send calls the base model
\* first, and the finetuned model is called only after the base call has
\* returned and its turn is stored; at no time is more than one generate_text
\* call in flight.
C15_DispatchOrder ==
    /\ [](/\ calls_in_flight \in {0, 1}
          /\ calls_in_flight = 1 <=> pc \in {"gen_base", "gen_ft"}
          /\ locals.calls \in {<<>>, <<"base">>, <<"finetuned">>,
                                <<"base", "finetuned">>})
    /\ [][(pc' \in {"gen_base", "gen_ft"}
                /\ session_state'["send_target"] = "both")
             => IF pc = "idle"
                THEN pc' = "gen_base" /\ locals'.calls = <<"base">>
                ELSE /\ pc = "got_base" /\ pc' = "gen_ft"
                     /\ locals.calls = <<"base">> /\ locals.returned = 1
                     /\ stored("history_base")'
                            = Append(locals.pre_base,
                                     last_turn(session_state', "base"))
                     /\ locals'.calls = <<"base", "finetuned">>
          ]_vars

\* Under "both" the finetuned call is in flight after the base call came back.
C15_Witness ==
    /\ pc = "gen_ft"
    /\ session_state["send_target"] = "both"
    /\ locals.calls = <<"base", "finetuned">>
    /\ locals.returned = 1

\* --------------------------------------------------------------------- C16

\* history is before with exactly one turn appended.
one_appended(history, before) ==
    /\ Len(history) = Len(before) + 1
    /\ SubSeq(history, 1, Len(before)) = before

\* C16: target independence.  When a Send has completed, the history of each
\* selected target is what it was when the Send began with exactly one turn
\* appended, and the history of a target that was not selected is what it
\* was: "base" leaves the finetuned history alone, "finetuned" the base
\* history, and "both" appends one turn to each.
C16_TargetIndependence ==
    (pc = "rerun" /\ locals.msg # <<>>)
        => LET target == session_state["send_target"] IN
           /\ IF target \in {"both", "base"}
              THEN one_appended(session_state["history_base"], locals.pre_base)
              ELSE session_state["history_base"] = locals.pre_base
           /\ IF target \in {"both", "finetuned"}
              THEN one_appended(session_state["history_ft"], locals.pre_ft)
              ELSE session_state["history_ft"] = locals.pre_ft

\* A Send to the finetuned model alone has completed while the base history
\* held a turn.
C16_Witness ==
    /\ pc = "rerun"
    /\ locals.msg # <<>>
    /\ session_state["send_target"] = "finetuned"
    /\ locals.pre_base # <<>>
    /\ session_state["history_base"] = locals.pre_base
    /\ one_appended(session_state["history_ft"], locals.pre_ft)

\* --------------------------------------------------------------------- C17

\* C17: malformed legacy data.  While the session holds a legacy list with a
\* turn that has no user field, display() fails with "Legacy turn missing
\* 'user'" and the per-target histories do not hold the turns that preceded
\* the malformed one: no display() renders the page on a partial migration.
C17_MalformedLegacyFails ==
    (/\ "history" \in DOMAIN session_state
     /\ ~well_formed(session_state["history"])
     /\ outcome # "none")
        => /\ outcome = "AssertionError: Legacy turn missing 'user'"
           /\ stored("history_base") = <<>>
           /\ stored("history_ft") = <<>>

\* --------------------------------------------------------------------- C18

\* The targets send_target selects.
selected(send_target) ==
    IF send_target = "both" THEN Targets
    ELSE IF send_target = "base" THEN {"base"} ELSE {"finetuned"}

\* C18: no retry.  Within one Send, generate_text is called at most once for
\* each selected target and never for a target that is not selected; a call
\* that raises, or whose reply fails extraction, ends the script with no
\* further call.
C18_NoRetry ==
    /\ [](/\ \A i, j \in 1..Len(locals.calls) :
                 i # j => locals.calls[i] # locals.calls[j]
          /\ \A i \in 1..Len(locals.calls) :
                 locals.calls[i] \in selected(session_state["send_target"]))
    /\ [][(InFlight /\ Len(locals'.calls) = Len(locals.calls))
             => \/ pc \in {"gen_base", "gen_ft"} /\ pc' \in {"got_base", "got_ft"}
                \/ pc' = "rerun" /\ locals' = locals
                \/ /\ outcome' \in SendFailures
                   /\ pc' = "idle"
                   /\ locals' = NoLocals
          ]_vars

\* A Send to both models has completed with one call to each.
C18_Witness ==
    /\ pc = "rerun"
    /\ session_state["send_target"] = "both"
    /\ locals.calls = <<"base", "finetuned">>
    /\ locals.returned = 2

\* --------------------------------------------------------------------- C19

\* The reset_input flag of session s is set.
reset_pending(s) == "reset_input" \in DOMAIN s /\ s["reset_input"]

\* C19: input reset.  The reset_input flag is set only by Clear and by the
\* last step of a Send whose every selected target got its turn; the display()
\* run that follows sets the input to the empty text and the flag to false;
\* a failed Send does not set the flag and keeps the input.
C19_InputReset ==
    [][/\ (reset_pending(session_state') /\ ~reset_pending(session_state))
            => /\ pc' = "rerun"
               /\ \/ /\ pc = "idle"
                     /\ session_state'["history_base"] = <<>>
                     /\ session_state'["history_ft"] = <<>>
                  \/ /\ pc \in {"got_base", "got_ft"}
                     /\ \A t \in selected(session_state["send_target"]) :
                            Len(history_of(session_state', t))
                                = Len(IF t = "base" THEN locals.pre_base
                                      ELSE locals.pre_ft) + 1
       /\ pc = "rerun"
            => /\ session_state'["input"] = <<>>
               /\ ~reset_pending(session_state')
       /\ outcome' \in SendFailures
                       \cup {"AssertionError: Message cannot be empty"}
            => /\ ~reset_pending(session_state')
               /\ session_state'["input"] = session_state["input"]
      ]_vars

\* --------------------------------------------------------------------- C20

\* The defaults of the settings; the temperature is in tenths.
Defaults ==
    [input |-> <<>>, use_chat |-> TRUE, temperature |-> 10,
     max_length |-> 200, do_sample |-> TRUE, thinking |-> FALSE,
     send_target |-> "both", reset_input |-> FALSE]

\* A display() run from session s gives key the value it has in s when s has
\* the key, and else its default.  after is the session when the run has got
\* past the reset handling.
initialised_once(s, after) ==
    /\ \A key \in DOMAIN Defaults \ {"input", "reset_input"} :
           after[key] = IF key \in DOMAIN s THEN s[key] ELSE Defaults[key]
    /\ IF reset_pending(s)
       THEN after["input"] = <<>> /\ ~after["reset_input"]
       ELSE \A key \in {"input", "reset_input"} :
               after[key] = IF key \in DOMAIN s THEN s[key] ELSE Defaults[key]
    /\ \A key \in {"history_base", "history_ft"} :
           IF key \in DOMAIN s
           THEN /\ IsPrefix(s[key], after[key])
                /\ s[key] # <<>> => after[key] = s[key]
           ELSE "history" \notin DOMAIN s => after[key] = <<>>

\* C20: initialise once.  display() writes a default (empty histories, empty
\* input, use_chat TRUE, temperature 1.0, max_length 200, do_sample TRUE,
\* thinking FALSE, send_target "both", reset_input FALSE) only for a key the
\* session does not have, and a display() run leaves every setting and every
\* history the session has as it is.  The other writes of a display() run are
\* the input reset of lines 193-196, when reset_input is set, and the
\* migration's appends to empty histories.
C20_InitialiseOnce ==
    /\ [](pc \in {"idle", "rerun"}
            => LET h == display_head(session_state) IN
               /\ \A key \in {"history_base", "history_ft"} :
                      key \in DOMAIN h.session
               /\ ~h.raised => initialised_once(session_state, h.session))
    /\ [][(\A key \in DOMAIN Defaults :
                (key \notin DOMAIN session_state
                     /\ key \in DOMAIN session_state')
                    => session_state'[key] = Defaults[key])
           /\ ((pc = "rerun" /\ outcome' = "ok")
                => initialised_once(session_state, session_state'))
          ]_vars

\* The page was rendered again after a Send, on a session whose settings are
\* not the defaults.
C20_Witness ==
    /\ pc = "idle"
    /\ outcome = "ok"
    /\ sent["base"] # <<>>
    /\ stored("history_base") # <<>>
    /\ ~session_state["use_chat"]
    /\ session_state["thinking"]
    /\ session_state["send_target"] = "base"

\* --------------------------------------------------------------------- C21

\* C21: the legacy aggregated history is read-only.  No step (a display() run
\* with or without migration, Send, Clear, a generate_text return) adds,
\* deletes or changes the legacy key "history" or a turn of its list.
C21_LegacyReadOnly ==
    [][/\ ("history" \in DOMAIN session_state')
            = ("history" \in DOMAIN session_state)
       /\ "history" \in DOMAIN session_state
            => session_state'["history"] = session_state["history"]
      ]_vars

\* The legacy list is in the session after a migration, a Clear, the
\* migration of the rerun and a completed Send.
C21_Witness ==
    /\ pc = "idle"
    /\ outcome = "ok"
    /\ migrations = 2
    /\ sent["base"] # <<>>
    /\ "history" \in DOMAIN session_state
    /\ session_state["history"] \in LegacyLists

\* --------------------------------------------------------------------- C22

\* C22: model cache consistency.  After any sequence of load_model calls,
\* returning or raising, every key of the model cache is a key of the
\* tokenizer cache and no call ends in the KeyError of the tokenizer lookup;
\* a call whose key is that of an earlier call that loaded and returned gives
\* back the very objects that call returned, loads nothing and leaves the
\* caches alone; a call that raises while loading leaves both caches as they
\* were.
C22_CacheConsistency ==
    /\ [](/\ DOMAIN MODEL_CACHE \subseteq DOMAIN TOKENIZER_CACHE
          /\ DOMAIN lm_returned = DOMAIN MODEL_CACHE
          /\ lm_result.status # "KeyError")
    /\ [][/\ (lm_pc = "idle" /\ lm_call' \in LoadModelCalls
                  /\ cache_key(lm_call') \in DOMAIN lm_returned)
               => /\ lm_pc' = "idle"
                  /\ lm_result' = lm_returned[cache_key(lm_call')]
                  /\ loads' = loads
                  /\ MODEL_CACHE' = MODEL_CACHE
                  /\ TOKENIZER_CACHE' = TOKENIZER_CACHE
          /\ (lm_pc = "loading" /\ lm_result'.status # "returned")
               => /\ lm_result'.status = "raised"
                  /\ MODEL_CACHE' = MODEL_CACHE
                  /\ TOKENIZER_CACHE' = TOKENIZER_CACHE
          ]_vars

\* After a load that raised and a load that returned, a call with another
\* tokenizer id and the cached key was given the cached model and tokenizer.
C22_Witness ==
    /\ lm_pc = "idle"
    /\ loads = 2
    /\ lm_result.status = "returned"
    /\ lm_call.tokenizer_id = Some(<<"t">>)
    /\ lm_result.tokenizer.name = <<"m">>
    /\ DOMAIN MODEL_CACHE = {cache_key(lm_call)}

====
